---- MODULE Spec2Model ----
(***************************************************************************)
(* Americano organizer: the fair-round scheduler (makeKey, computeStats,   *)
(* partnerCoverage, recommendRoundsPartner, generateFairRound) and the     *)
(* round handlers of the page component (generateRoundFair, updateScore,   *)
(* saveRound, deleteLastRound, ...), modelled from src/app/page.tsx.  The  *)
(* scheduler functions are identical in the three source files.            *)
(*                                                                         *)
(* A player is modelled by a natural 1, 2, ... (the display name takes no  *)
(* part in any scheduling decision); IdOf gives the player's id string,    *)
(* which makeKey compares and joins.                                       *)
(***************************************************************************)
EXTENDS Integers, Sequences, FiniteSets, TLC

VARIABLES
    players,       \* useState players: the roster, a sequence of ids
    courts,        \* useState courts (in GenSpec: the courtsWanted argument)
    matches,       \* useState matches: the current round
    results,       \* useState results: court -> [scoreA, scoreB]
    savedRounds,   \* useState savedRounds: newest round first
    targetRounds,  \* useState targetRounds
    manualEnded,   \* useState manualEnded
    extraMode,     \* useState extraMode
    error,         \* useState error: TRUE iff an error message is shown
    setupDone,     \* useState setupDone
    ret,           \* what generateFairRound returned for the current round
    timers         \* pending setTimeout callbacks (part_000), oldest first

vars == <<players, courts, matches, results, savedRounds, targetRounds,
          manualEnded, extraMode, error, setupDone, ret, timers>>

(***************************************************************************)
(* Bounds of the model.                                                    *)
(***************************************************************************)
MaxPlayers == 5        \* largest roster drawn by GenSpec
MaxSetupPlayers == 4   \* largest roster the setup of Spec creates
MaxHistory == 2        \* longest history drawn by GenSpec
MaxCourtsWanted == 2   \* largest courtsWanted of the small rosters of GenSpec
MaxScore == 0          \* largest score a user enters
MaxTarget == 2         \* largest number of target rounds chosen at setup
MaxRounds == 2         \* longest history Spec lets the handlers build
MaxRepeat == 5         \* most repetitions of a round drawn by PartnerSpec
MaxIdLen == 2          \* longest identifier drawn by KeySpec
MaxRecPlayers == 12    \* largest playerCount drawn by RecSpec
MaxRecCourts == 4      \* largest court count drawn by RecSpec
MaxStatsHistory == 3   \* longest history drawn by FnSpec
MaxSaved == 3          \* most rounds saved in SaveSpec
MaxRotation == 0       \* largest rotation of the roster drawn as a shuffle outcome
MaxRosterRounds == 1   \* history length from which RosterSpec stops generating
MaxTimers == 1         \* most callbacks pending at a time in AutoSpec

(***************************************************************************)
(* Program constants.                                                      *)
(***************************************************************************)
PartnerWeight == 14    \* matchScore: 14 * partner(...)
OpponentWeight == 3    \* matchScore: 3 * (opp(...) + ...)
ScoreScale == 4        \* matchScore's -0.25: scores are kept times 4
MatchSize == 4         \* Math.floor(n / 4), courts * 4

NoCall == [called |-> FALSE]
NaN == -1              \* stands for NaN: undefined + 1 in gamesPlayed
Empty == -1            \* stands for "": a score not entered yet

Min(a, b) == IF a < b THEN a ELSE b
Max(a, b) == IF a > b THEN a ELSE b

Range(s) == {s[i] : i \in DOMAIN s}

(***************************************************************************)
(* Data: a match and a saved round.                                        *)
(***************************************************************************)
Match(court, a, b, c, d) == [court |-> court, teamA |-> <<a, b>>, teamB |-> <<c, d>>]

MatchPlayers(m) == <<m.teamA[1], m.teamA[2], m.teamB[1], m.teamB[2]>>

\* SavedRound without its id and createdAt, which no handler reads back.
SavedRound(ms, res) == [courts |-> Len(ms), matches |-> ms, results |-> res]

(***************************************************************************)
(* makeKey: the lesser id, the separator "__", the greater id.  A string   *)
(* is modelled as the sequence of its UTF-16 code units, which is what the *)
(* < of two strings compares.                                              *)
(***************************************************************************)
\* The id of player p: a one-character string, "1" for player 1, ...  The
\* app's ids come from crypto.randomUUID(), whose characters are the
\* digits, a-f and "-".
IdOf(p) == <<48 + p>>

\* "__"
Separator == <<95, 95>>

RECURSIVE StrLess(_, _)
\* a < b on strings: the first differing code unit decides, a proper prefix
\* is the lesser.
StrLess(a, b) ==
    IF b = <<>> THEN FALSE
    ELSE IF a = <<>> THEN TRUE
    ELSE IF Head(a) < Head(b) THEN TRUE
    ELSE IF Head(a) > Head(b) THEN FALSE
    ELSE StrLess(Tail(a), Tail(b))

\* Variant: the ids are joined in argument order.
makeKeyUnordered(a, b) == a \o Separator \o b

makeKey(a, b) == IF StrLess(a, b) THEN a \o Separator \o b ELSE b \o Separator \o a

(***************************************************************************)
(* computeStats: one pass over the rounds and their matches.               *)
(***************************************************************************)
\* Variant: only the newest round is read.
FlattenNewest(rounds) == IF rounds = <<>> THEN <<>> ELSE Head(rounds).matches

RECURSIVE Flatten(_)
\* The matches in the order of `for round of savedRounds, for m of round.matches`.
Flatten(rounds) ==
    IF rounds = <<>> THEN <<>> ELSE Head(rounds).matches \o Flatten(Tail(rounds))

\* gamesPlayed[id] += 1; an id the roster did not seed is undefined, and
\* undefined + 1 is NaN.
BumpGames(gp, id) ==
    IF id \in DOMAIN gp
    THEN [gp EXCEPT ![id] = IF @ = NaN THEN NaN ELSE @ + 1]
    ELSE [x \in DOMAIN gp \cup {id} |-> IF x = id THEN NaN ELSE gp[x]]

\* Variant: count[k] = 1
BumpKeyOnce(count, k) == [x \in DOMAIN count \cup {k} |-> IF x = k THEN 1 ELSE count[x]]

\* count[k] = (count[k] ?? 0) + 1
BumpKey(count, k) ==
    IF k \in DOMAIN count
    THEN [count EXCEPT ![k] = @ + 1]
    ELSE [x \in DOMAIN count \cup {k} |-> IF x = k THEN 1 ELSE count[x]]

StatsAfterMatch(st, m) ==
    LET a1 == m.teamA[1]
        a2 == m.teamA[2]
        b1 == m.teamB[1]
        b2 == m.teamB[2]
    IN  [gamesPlayed |->
            BumpGames(BumpGames(BumpGames(BumpGames(st.gamesPlayed, a1), a2), b1), b2),
         partnerCount |->
            BumpKey(BumpKey(st.partnerCount, makeKey(IdOf(a1), IdOf(a2))),
                    makeKey(IdOf(b1), IdOf(b2))),
         opponentCount |->
            BumpKey(BumpKey(BumpKey(BumpKey(st.opponentCount,
                makeKey(IdOf(a1), IdOf(b1))), makeKey(IdOf(a1), IdOf(b2))),
                makeKey(IdOf(a2), IdOf(b1))), makeKey(IdOf(a2), IdOf(b2)))]

RECURSIVE FoldStats(_, _)
FoldStats(st, ms) ==
    IF ms = <<>> THEN st ELSE FoldStats(StatsAfterMatch(st, Head(ms)), Tail(ms))

computeStats(ps, rounds) ==
    FoldStats([gamesPlayed |-> [id \in Range(ps) |-> 0],
               partnerCount |-> <<>>,
               opponentCount |-> <<>>],
              Flatten(rounds))

(***************************************************************************)
(* partnerCoverage.  Math.round(x) is floor(x + 1/2); done / totalPairs *  *)
(* 100 is never within rounding error of a half for the rosters modelled,  *)
(* so the integer form below is exact.                                     *)
(***************************************************************************)
RECURSIVE SeenPairsTeamA(_)
\* Variant: only team A's pair key is added to seenPairs.
SeenPairsTeamA(ms) ==
    IF ms = <<>> THEN {}
    ELSE {makeKey(IdOf(Head(ms).teamA[1]), IdOf(Head(ms).teamA[2]))}
         \cup SeenPairsTeamA(Tail(ms))

RECURSIVE SeenPairsList(_)
\* Variant: seenPairs is a list, every occurrence of a pair is kept.
SeenPairsList(ms) ==
    IF ms = <<>> THEN {}
    ELSE {<<Len(ms), "A", makeKey(IdOf(Head(ms).teamA[1]), IdOf(Head(ms).teamA[2]))>>,
          <<Len(ms), "B", makeKey(IdOf(Head(ms).teamB[1]), IdOf(Head(ms).teamB[2]))>>}
         \cup SeenPairsList(Tail(ms))

RECURSIVE SeenPairs(_)
\* seenPairs after the loop over the rounds and their matches.
SeenPairs(ms) ==
    IF ms = <<>> THEN {}
    ELSE {makeKey(IdOf(Head(ms).teamA[1]), IdOf(Head(ms).teamA[2])),
          makeKey(IdOf(Head(ms).teamB[1]), IdOf(Head(ms).teamB[2]))} \cup SeenPairs(Tail(ms))

\* Variant: the percent is taken of the missing pairs.
RoundPercentMissing(done, totalPairs) ==
    (2 * 100 * (totalPairs - done) + totalPairs) \div (2 * totalPairs)

RoundPercent(done, totalPairs) == (2 * 100 * done + totalPairs) \div (2 * totalPairs)

partnerCoverage(ps, rounds) ==
    LET n == Len(ps)
        totalPairs == (n * (n - 1)) \div 2
        done == Cardinality(SeenPairs(Flatten(rounds)))
    IN  IF n <= 1
        THEN [complete |-> TRUE, percent |-> 100, missingPairs |-> 0, totalPairs |-> 0]
        ELSE [complete |-> done >= totalPairs,
              percent |-> Max(0, Min(100, RoundPercent(done, totalPairs))),
              missingPairs |-> Max(0, totalPairs - done),
              totalPairs |-> totalPairs]

(***************************************************************************)
(* recommendRoundsPartner.                                                 *)
(***************************************************************************)
\* Variant: Math.floor in place of Math.ceil.
CeilDivFloor(num, den) == num \div den

CeilDiv(num, den) == (num + den - 1) \div den

\* Variant: the slots of a round are counted as 2 per court.
recommendRoundsPartnerPerTeam(playerCount, courtCount) ==
    IF playerCount < MatchSize THEN 0
    ELSE LET possible == playerCount \div MatchSize
             c == Max(1, Min(courtCount, IF possible = 0 THEN 1 ELSE possible))
             num == playerCount * (playerCount - 1)
             den == 2 * c
         IN  Max(1, CeilDiv(num, den))

\* Variant: the court count is not clamped to the courts the roster fills.
recommendRoundsPartnerUnclamped(playerCount, courtCount) ==
    IF playerCount < MatchSize THEN 0
    ELSE LET c == Max(1, courtCount)
             num == playerCount * (playerCount - 1)
             den == MatchSize * c
         IN  Max(1, CeilDiv(num, den))

recommendRoundsPartner(playerCount, courtCount) ==
    IF playerCount < MatchSize THEN 0
    ELSE LET possible == playerCount \div MatchSize
             c == Max(1, Min(courtCount, IF possible = 0 THEN 1 ELSE possible))
             num == playerCount * (playerCount - 1)
             den == MatchSize * c
         IN  Max(1, CeilDiv(num, den))

(***************************************************************************)
(* generateFairRound.                                                      *)
(***************************************************************************)
RECURSIVE Shuffles(_)
\* [...players].sort(() => Math.random() - 0.5): the comparator ignores its
\* arguments, so the sort may leave the roster in any order.
Shuffles(S) ==
    IF S = {} THEN {<<>>}
    ELSE UNION {{<<x>> \o rest : rest \in Shuffles(S \ {x})} : x \in S}

\* gamesPlayed[id] ?? 0, as the sort comparator and gp read it.
GamesOf(gamesPlayed, id) == IF id \in DOMAIN gamesPlayed THEN gamesPlayed[id] ELSE 0

RECURSIVE SortFrom(_, _, _)
\* shuffled.sort((a, b) => games(a) - games(b)): Array.prototype.sort is
\* stable, so the players come out by ascending games-played, those of equal
\* games-played in their shuffled order.  SortFrom lists the players of
\* games-played g, then those of g + 1, ... up to the largest count.
MaxGames(shuffled, gamesPlayed) ==
    LET gs == {GamesOf(gamesPlayed, shuffled[i]) : i \in DOMAIN shuffled}
    IN  IF gs = {} THEN 0 ELSE CHOOSE g \in gs : \A h \in gs : h <= g

SortFrom(shuffled, gamesPlayed, g) ==
    IF g > MaxGames(shuffled, gamesPlayed) THEN <<>>
    ELSE SelectSeq(shuffled, LAMBDA x : GamesOf(gamesPlayed, x) = g)
         \o SortFrom(shuffled, gamesPlayed, g + 1)

\* Variant: the sort by games-played left out, byGames is the shuffle.
SortByGamesOmitted(shuffled, gamesPlayed) == shuffled

SortByGames(shuffled, gamesPlayed) == SortFrom(shuffled, gamesPlayed, 0)

\* Every value byGames can take: one per outcome of the shuffle.
ByGamesOrders(ps, rounds) ==
    LET gamesPlayed == computeStats(ps, rounds).gamesPlayed
    IN  {SortByGames(shuffled, gamesPlayed) : shuffled \in Shuffles(Range(ps))}

\* partner(x, y), opp(x, y): count[makeKey(x, y)] ?? 0
PairCount(count, x, y) ==
    LET k == makeKey(IdOf(x), IdOf(y)) IN IF k \in DOMAIN count THEN count[k] ELSE 0

\* Variant: the partner penalty left out of the score.
matchScoreNoPartner(st, a, b, c, d) ==
    LET opponentPenalty == OpponentWeight *
                           (PairCount(st.opponentCount, a, c) + PairCount(st.opponentCount, a, d)
                            + PairCount(st.opponentCount, b, c) + PairCount(st.opponentCount, b, d))
        playtimeSum == GamesOf(st.gamesPlayed, a) + GamesOf(st.gamesPlayed, b)
                       + GamesOf(st.gamesPlayed, c) + GamesOf(st.gamesPlayed, d)
    IN  ScoreScale * opponentPenalty - playtimeSum

\* matchScore(a, b, c, d), times ScoreScale so that the playtime bonus
\* -0.25 * (...) stays an integer; the order of two scores is unchanged.
matchScore(st, a, b, c, d) ==
    LET partnerPenalty == PartnerWeight * PairCount(st.partnerCount, a, b)
                          + PartnerWeight * PairCount(st.partnerCount, c, d)
        opponentPenalty == OpponentWeight *
                           (PairCount(st.opponentCount, a, c) + PairCount(st.opponentCount, a, d)
                            + PairCount(st.opponentCount, b, c) + PairCount(st.opponentCount, b, d))
        playtimeSum == GamesOf(st.gamesPlayed, a) + GamesOf(st.gamesPlayed, b)
                       + GamesOf(st.gamesPlayed, c) + GamesOf(st.gamesPlayed, d)
    IN  ScoreScale * partnerPenalty + ScoreScale * opponentPenalty - playtimeSum

Option(st, a, b, c, d) == [a |-> a, b |-> b, c |-> c, d |-> d, score |-> matchScore(st, a, b, c, d)]

\* Variant: the options are not sorted, the first one is returned.
bestSplitForFourUnsorted(st, p, q, r, s) == Option(st, p, q, r, s)

\* bestSplitForFour: the three options, sorted by score (stable), the first
\* one taken: the first option whose score no other option undercuts.
bestSplitForFour(st, p, q, r, s) ==
    LET o1 == Option(st, p, q, r, s)
        o2 == Option(st, p, r, q, s)
        o3 == Option(st, p, s, q, r)
    IN  IF o1.score <= o2.score /\ o1.score <= o3.score THEN o1
        ELSE IF o2.score <= o3.score THEN o2
        ELSE o3

NoBest == [found |-> FALSE]

\* The index quadruple the four nested loops visit after <<i, j, k, l>>
\* over an array of length n; <<>> when the loops are over.
NextQuad(q, n) ==
    IF q[4] < n THEN <<q[1], q[2], q[3], q[4] + 1>>
    ELSE IF q[3] < n - 1 THEN <<q[1], q[2], q[3] + 1, q[3] + 2>>
    ELSE IF q[2] < n - 2 THEN <<q[1], q[2] + 1, q[2] + 2, q[2] + 3>>
    ELSE IF q[1] < n - 3 THEN <<q[1] + 1, q[1] + 2, q[1] + 3, q[1] + 4>>
    ELSE <<>>

\* Variant: a later candidate of equal score replaces the best one.
BetterOrEqualOf(best, split) ==
    IF ~best.found \/ split.score <= best.score
    THEN [found |-> TRUE, split |-> split, score |-> split.score]
    ELSE best

\* if (!best || split.score < best.score) best = {group, split, score}
BetterOf(best, split) ==
    IF ~best.found \/ split.score < best.score
    THEN [found |-> TRUE, split |-> split, score |-> split.score]
    ELSE best

RECURSIVE ScanGroups(_, _, _, _)
\* The four nested loops over remaining, from quadruple q on.
ScanGroups(st, remaining, q, best) ==
    IF q = <<>> THEN best
    ELSE LET next == BetterOf(best, bestSplitForFour(st, remaining[q[1]], remaining[q[2]],
                                                     remaining[q[3]], remaining[q[4]]))
         IN  IF next.found
             THEN ScanGroups(st, remaining, NextQuad(q, Len(remaining)), next)
             ELSE next

BestGroup(st, remaining) ==
    IF Len(remaining) < MatchSize THEN NoBest
    ELSE ScanGroups(st, remaining, <<1, 2, 3, 4>>, NoBest)

\* Variant: the splice loop removes team A only.
RemoveChosenTeamA(remaining, split) ==
    SelectSeq(remaining, LAMBDA x : x \notin {split.a, split.b})

\* The splice loop: remaining without the four chosen players, order kept.
RemoveChosen(remaining, split) ==
    SelectSeq(remaining, LAMBDA x : x \notin {split.a, split.b, split.c, split.d})

RECURSIVE CourtLoop(_, _, _, _, _)
\* for (court = 1; court <= courts; court++) { ... }, from `court` on.
CourtLoop(st, court, courtCount, remaining, acc) ==
    IF court > courtCount \/ Len(remaining) < MatchSize THEN acc
    ELSE LET best == BestGroup(st, remaining)
         IN  IF ~best.found THEN acc
             ELSE CourtLoop(st, court + 1, courtCount, RemoveChosen(remaining, best.split),
                            Append(acc, Match(court, best.split.a, best.split.b,
                                              best.split.c, best.split.d)))

\* Variant: courtsWanted ignored, every possible court is used.
UsedCourtsPossible(n, courtsWanted) == Max(0, n \div MatchSize)

\* Variant: at least one court, as effectiveCourts has it.
UsedCourtsAtLeastOne(n, courtsWanted) == Max(1, Min(courtsWanted, n \div MatchSize))

UsedCourts(n, courtsWanted) == Max(0, Min(courtsWanted, n \div MatchSize))

\* Array.prototype.slice(start, end) for 0 <= start: the elements of index
\* start .. end - 1 that exist.
Slice(s, start, end) == SubSeq(s, start + 1, Min(end, Len(s)))

\* const active = byGames.slice(0, courts * 4)
ActiveOf(byGames, slots) == Slice(byGames, 0, slots)

\* Variant: the bench slice starts one player late.
BenchOfLate(byGames, slots) == Slice(byGames, slots + 1, Len(byGames))

\* const bench = byGames.slice(courts * 4)
BenchOf(byGames, slots) == Slice(byGames, slots, Len(byGames))

\* byGames is the outcome of the two sorts, one of ByGamesOrders(ps, rounds).
generateFairRound(ps, courtsWanted, rounds, byGames) ==
    LET n == Len(ps)
        courtCount == UsedCourts(n, courtsWanted)
        slots == courtCount * MatchSize
        st == computeStats(ps, rounds)
        active == ActiveOf(byGames, slots)
        bench == BenchOf(byGames, slots)
    IN  [called |-> TRUE,
         matches |-> CourtLoop(st, 1, courtCount, active, <<>>),
         bench |-> bench]

(***************************************************************************)
(* Defaults of the page component's state, shared by the specifications.   *)
(***************************************************************************)
NoResults == <<>>

Roster(n) == [i \in 1..n |-> i]

\* A results map with both scores of every court entered as 0.
ZeroResults(ms) == [c \in {ms[i].court : i \in DOMAIN ms} |-> [scoreA |-> 0, scoreB |-> 0]]

(***************************************************************************)
(* GenSpec: generateFairRound as a function of its arguments.  The roster, *)
(* courtsWanted and a history of single-court rounds over the roster are   *)
(* drawn from bounded sets, and a roster of two full courts is drawn with  *)
(* a history of one round; the one action calls the function.              *)
(***************************************************************************)
\* The matches of four roster players on court 1, one per split.
MatchesOver(n) ==
    {Match(1, a, b, c, d) : <<a, b, c, d>> \in
        {q \in (1..n) \X (1..n) \X (1..n) \X (1..n) :
            /\ q[1] < q[2] /\ q[3] < q[4] /\ q[1] < q[3]
            /\ Cardinality({q[1], q[2], q[3], q[4]}) = MatchSize}}

RoundsOver(n) == {SavedRound(<<m>>, ZeroResults(<<m>>)) : m \in MatchesOver(n)}

RECURSIVE HistoriesOver(_, _)
HistoriesOver(n, len) ==
    IF len = 0 THEN {<<>>}
    ELSE LET shorter == HistoriesOver(n, len - 1)
         IN  shorter \cup {<<r>> \o h : r \in RoundsOver(n), h \in {x \in shorter : Len(x) = len - 1}}

\* The history of the two-court roster: one round, one match, players 1 and 2
\* partners against players 3 and 4.
FirstRound == SavedRound(<<Match(1, 1, 2, 3, 4)>>, ZeroResults(<<Match(1, 1, 2, 3, 4)>>))

GenInit ==
    /\ \/ /\ \E n \in 0..MaxPlayers :
                /\ players = Roster(n)
                /\ savedRounds \in HistoriesOver(n, MaxHistory)
          /\ courts \in -1..MaxCourtsWanted
       \/ /\ players = Roster(2 * MatchSize)
          /\ savedRounds = <<FirstRound>>
          /\ courts \in 1..(MaxCourtsWanted + 1)
    /\ matches = <<>>
    /\ results = NoResults
    /\ targetRounds = 0
    /\ manualEnded = FALSE
    /\ extraMode = FALSE
    /\ error = FALSE
    /\ setupDone = TRUE
    /\ ret = NoCall
    /\ timers = <<>>

CallGenerateFairRound ==
    /\ ~ret.called
    /\ \E byGames \in ByGamesOrders(players, savedRounds) :
          ret' = generateFairRound(players, courts, savedRounds, byGames)
    /\ UNCHANGED <<players, courts, matches, results, savedRounds, targetRounds,
                   manualEnded, extraMode, error, setupDone, timers>>

GenNext == CallGenerateFairRound

GenSpec == GenInit /\ [][GenNext]_vars

(***************************************************************************)
(* PartnerSpec: generateFairRound on one court for a roster of six whose   *)
(* history is the first round followed by a round played up to MaxRepeat   *)
(* times.                                                                  *)
(***************************************************************************)
RECURSIVE Repeated(_, _)
\* k saved rounds, each a copy of round r.
Repeated(r, k) == IF k = 0 THEN <<>> ELSE <<r>> \o Repeated(r, k - 1)

PartnerInit ==
    /\ players = Roster(MatchSize + 2)
    /\ \E r \in RoundsOver(MatchSize + 2) : \E k \in 0..MaxRepeat :
          savedRounds = Repeated(r, k) \o <<FirstRound>>
    /\ courts = 1
    /\ matches = <<>>
    /\ results = NoResults
    /\ targetRounds = 0
    /\ manualEnded = FALSE
    /\ extraMode = FALSE
    /\ error = FALSE
    /\ setupDone = TRUE
    /\ ret = NoCall
    /\ timers = <<>>

PartnerSpec == PartnerInit /\ [][GenNext]_vars

(***************************************************************************)
(* FnSpec: computeStats and partnerCoverage as functions of their          *)
(* arguments.  A roster and a history are drawn, the history over players  *)
(* that need not all be in the roster (a saved round keeps the players     *)
(* removed since); each action calls one function.                         *)
(***************************************************************************)
FnInit ==
    /\ \E n \in 0..MaxPlayers : players = Roster(n)
    /\ savedRounds \in HistoriesOver(MaxPlayers, MaxStatsHistory)
    /\ courts = 1
    /\ matches = <<>>
    /\ results = NoResults
    /\ targetRounds = 0
    /\ manualEnded = FALSE
    /\ extraMode = FALSE
    /\ error = FALSE
    /\ setupDone = TRUE
    /\ ret = NoCall
    /\ timers = <<>>

CallComputeStats ==
    /\ ~ret.called
    /\ ret' = [called |-> TRUE, fn |-> "computeStats",
               stats |-> computeStats(players, savedRounds)]
    /\ UNCHANGED <<players, courts, matches, results, savedRounds, targetRounds,
                   manualEnded, extraMode, error, setupDone, timers>>

CallPartnerCoverage ==
    /\ ~ret.called
    /\ ret' = [called |-> TRUE, fn |-> "partnerCoverage",
               coverage |-> partnerCoverage(players, savedRounds)]
    /\ UNCHANGED <<players, courts, matches, results, savedRounds, targetRounds,
                   manualEnded, extraMode, error, setupDone, timers>>

FnNext ==
    \/ CallComputeStats
    \/ CallPartnerCoverage

FnSpec == FnInit /\ [][FnNext]_vars

(***************************************************************************)
(* RecSpec: recommendRoundsPartner as a function of the roster size and    *)
(* the court count, both drawn; the one action calls it.                   *)
(***************************************************************************)
RecInit ==
    /\ \E n \in 0..MaxRecPlayers : players = Roster(n)
    /\ savedRounds = <<>>
    /\ courts \in -1..MaxRecCourts
    /\ matches = <<>>
    /\ results = NoResults
    /\ targetRounds = 0
    /\ manualEnded = FALSE
    /\ extraMode = FALSE
    /\ error = FALSE
    /\ setupDone = TRUE
    /\ ret = NoCall
    /\ timers = <<>>

CallRecommendRoundsPartner ==
    /\ ~ret.called
    /\ ret' = [called |-> TRUE, fn |-> "recommendRoundsPartner",
               rounds |-> recommendRoundsPartner(Len(players), courts)]
    /\ UNCHANGED <<players, courts, matches, results, savedRounds, targetRounds,
                   manualEnded, extraMode, error, setupDone, timers>>

RecNext == CallRecommendRoundsPartner

RecSpec == RecInit /\ [][RecNext]_vars

(***************************************************************************)
(* SaveSpec: the histories that saving rounds builds.  The roster fills    *)
(* one court; the one action saves a round of one match of any four roster *)
(* players, as saveRound prepends the current round to savedRounds.        *)
(***************************************************************************)
SaveInit ==
    /\ \E n \in MatchSize..MaxPlayers : players = Roster(n)
    /\ savedRounds = <<>>
    /\ courts \in 0..MaxCourtsWanted
    /\ matches = <<>>
    /\ results = NoResults
    /\ targetRounds = 0
    /\ manualEnded = FALSE
    /\ extraMode = FALSE
    /\ error = FALSE
    /\ setupDone = TRUE
    /\ ret = NoCall
    /\ timers = <<>>

\* setSavedRounds((prev) => [round, ...prev])
SaveAnyRound ==
    /\ Len(savedRounds) < MaxSaved
    /\ \E round \in RoundsOver(Len(players)) : savedRounds' = <<round>> \o savedRounds
    /\ UNCHANGED <<players, courts, matches, results, targetRounds,
                   manualEnded, extraMode, error, setupDone, timers, ret>>

SaveNext == SaveAnyRound

SaveSpec == SaveInit /\ [][SaveNext]_vars

(***************************************************************************)
(* KeySpec: makeKey as a function of two identifier strings.  players      *)
(* holds the two identifiers drawn; the one action calls makeKey on them,  *)
(* in either order.                                                        *)
(***************************************************************************)
\* The characters identifiers are drawn from: "_", "a", "b".
IdChars == {95, 97, 98}

RECURSIVE StringsOf(_)
\* The strings of exactly len characters.
StringsOf(len) ==
    IF len = 0 THEN {<<>>}
    ELSE {<<ch>> \o rest : ch \in IdChars, rest \in StringsOf(len - 1)}

\* The non-empty identifiers of up to MaxIdLen characters.
KeyIds == UNION {StringsOf(len) : len \in 1..MaxIdLen}

KeyInit ==
    /\ players \in {<<a, b>> : a \in KeyIds, b \in KeyIds}
    /\ savedRounds = <<>>
    /\ courts = 1
    /\ matches = <<>>
    /\ results = NoResults
    /\ targetRounds = 0
    /\ manualEnded = FALSE
    /\ extraMode = FALSE
    /\ error = FALSE
    /\ setupDone = TRUE
    /\ ret = NoCall
    /\ timers = <<>>

CallMakeKey(a, b) ==
    /\ ~ret.called
    /\ ret' = [called |-> TRUE, a |-> a, b |-> b, key |-> makeKey(a, b)]
    /\ UNCHANGED <<players, courts, matches, results, savedRounds, targetRounds,
                   manualEnded, extraMode, error, setupDone, timers>>

KeyNext == \E a \in Range(players) : \E b \in Range(players) : CallMakeKey(a, b)

KeySpec == KeyInit /\ [][KeyNext]_vars

(***************************************************************************)
(* Spec: the page component after mount.  The setup wizard's own fields    *)
(* (player count, names, courts, target rounds) are the parameters of      *)
(* StartTournamentFromSetup.                                               *)
(***************************************************************************)
Init ==
    /\ players = <<>>
    /\ courts = 1
    /\ matches = <<>>
    /\ results = NoResults
    /\ savedRounds = <<>>
    /\ targetRounds = recommendRoundsPartner(2 * MatchSize, 2)
    /\ manualEnded = FALSE
    /\ extraMode = FALSE
    /\ error = FALSE
    /\ setupDone = FALSE
    /\ ret = NoCall
    /\ timers = <<>>

\* const maxCourtsPossible, effectiveCourts
maxCourtsPossible == Max(1, Len(players) \div MatchSize)
effectiveCourts == Min(Max(1, courts), maxCourtsPossible)

\* const coverage = useMemo(() => partnerCoverage(players, savedRounds), ...)
coverage == partnerCoverage(players, savedRounds)

\* Variant: the target is ignored, only the manual end finishes.
tournamentFinishedManual == manualEnded

tournamentFinished ==
    manualEnded \/ (~extraMode /\ targetRounds > 0 /\ Len(savedRounds) >= targetRounds)

\* startTournamentFromSetup with valid names: n players, c courts and t
\* target rounds as the wizard's inputs keep them (n >= 4, c >= 1, t >= 1).
StartTournamentFromSetup(n, c, t) ==
    /\ ~setupDone
    /\ players' = Roster(n)
    /\ courts' = Min(c, Max(1, n \div MatchSize))
    /\ savedRounds' = <<>>
    /\ matches' = <<>>
    /\ results' = NoResults
    /\ targetRounds' = IF t # 0 THEN t
                       ELSE recommendRoundsPartner(n, Min(c, Max(1, n \div MatchSize)))
    /\ manualEnded' = FALSE
    /\ extraMode' = FALSE
    /\ setupDone' = TRUE
    /\ error' = FALSE
    /\ ret' = NoCall
    /\ timers' = timers

\* newResults: both scores of every court of the round empty.
EmptyResults(ms) ==
    [c \in {ms[i].court : i \in DOMAIN ms} |-> [scoreA |-> Empty, scoreB |-> Empty]]

\* generateRoundFair, with the values byGames may take (one per outcome of
\* the shuffle) and the history length from which the model stops generating.
generateRoundFairWith(orders, cap) ==
    /\ setupDone
    /\ IF tournamentFinished
       THEN /\ error' = TRUE
            /\ UNCHANGED <<matches, results, ret>>
       ELSE IF Len(players) < MatchSize
       THEN /\ matches' = <<>>
            /\ results' = NoResults
            /\ error' = TRUE
            /\ ret' = NoCall
       ELSE /\ Len(savedRounds) < cap
            /\ \E byGames \in orders :
                  LET possible == Len(players) \div MatchSize
                      usedCourts == Min(effectiveCourts, possible)
                      fair == generateFairRound(players, usedCourts, savedRounds, byGames)
                  IN  /\ ret' = fair
                      /\ matches' = fair.matches
                      /\ results' = EmptyResults(fair.matches)
            /\ error' = FALSE
    /\ UNCHANGED <<players, courts, savedRounds, targetRounds, manualEnded, extraMode,
                   setupDone, timers>>

generateRoundFair == generateRoundFairWith(ByGamesOrders(players, savedRounds), MaxRounds)

\* prev[court]?.scoreA ?? ""
ScoreOf(res, court, side) ==
    IF court \in DOMAIN res THEN res[court][side] ELSE Empty

\* updateScore(court, side, value): value is "" or a number, kept >= 0.
updateScore(court, side, value) ==
    /\ setupDone
    /\ LET num == IF value = Empty THEN Empty ELSE Max(0, value)
           entry == [scoreA |-> IF side = "A" THEN num ELSE ScoreOf(results, court, "scoreA"),
                     scoreB |-> IF side = "B" THEN num ELSE ScoreOf(results, court, "scoreB")]
       IN  results' = [c \in DOMAIN results \cup {court} |->
                          IF c = court THEN entry ELSE results[c]]
    /\ UNCHANGED <<players, courts, matches, savedRounds, targetRounds, manualEnded,
                   extraMode, error, setupDone, timers, ret>>

\* Variant: a round is enough, its scores are not looked at.
canSaveAnyScores == Len(matches) # 0

canSaveCurrentRound ==
    /\ Len(matches) # 0
    /\ \A i \in DOMAIN matches :
          /\ matches[i].court \in DOMAIN results
          /\ results[matches[i].court].scoreA # Empty
          /\ results[matches[i].court].scoreB # Empty

\* Variant: only the first match's court is frozen.
FrozenFirstCourt(ms, res) ==
    [c \in {ms[1].court} |-> [scoreA |-> res[c].scoreA, scoreB |-> res[c].scoreB]]

\* frozenResults: Number(r.scoreA), Number(r.scoreB) of every court played.
FrozenResults(ms, res) ==
    [c \in {ms[i].court : i \in DOMAIN ms} |-> [scoreA |-> res[c].scoreA, scoreB |-> res[c].scoreB]]

saveRound ==
    /\ setupDone
    /\ IF tournamentFinished \/ Len(matches) = 0 \/ ~canSaveCurrentRound
       THEN /\ error' = TRUE
            /\ UNCHANGED <<matches, results, savedRounds, ret>>
       ELSE /\ Len(savedRounds) < MaxRounds
            /\ savedRounds' = <<SavedRound(matches, FrozenResults(matches, results))>> \o savedRounds
            /\ matches' = <<>>
            /\ results' = NoResults
            /\ error' = FALSE
            /\ ret' = NoCall
    /\ UNCHANGED <<players, courts, targetRounds, manualEnded, extraMode, setupDone, timers>>

\* Variant: prev.slice(0, -1)
DropLast(prev) == Slice(prev, 0, Len(prev) - 1)

\* The updater of deleteLastRound: prev.slice(1)
DropFirst(prev) == Slice(prev, 1, Len(prev))

\* The button is rendered while a round is saved.
deleteLastRound ==
    /\ setupDone
    /\ Len(savedRounds) > 0
    /\ savedRounds' = DropFirst(savedRounds)
    /\ UNCHANGED <<players, courts, matches, results, targetRounds, manualEnded,
                   extraMode, error, setupDone, timers, ret>>

\* The button is rendered while the tournament is not finished.
endTournamentNow ==
    /\ setupDone
    /\ ~tournamentFinished
    /\ error' = FALSE
    /\ manualEnded' = TRUE
    /\ matches' = <<>>
    /\ results' = NoResults
    /\ ret' = NoCall
    /\ UNCHANGED <<players, courts, savedRounds, targetRounds, extraMode, setupDone, timers>>

\* The button is rendered in the finished panel, after a manual end short of
\* the target.
resumeTournament ==
    /\ setupDone
    /\ tournamentFinished
    /\ manualEnded
    /\ Len(savedRounds) < targetRounds
    /\ error' = FALSE
    /\ manualEnded' = FALSE
    /\ UNCHANGED <<players, courts, matches, results, savedRounds, targetRounds,
                   extraMode, setupDone, timers, ret>>

\* The button is rendered in the finished panel.
playExtraRounds ==
    /\ setupDone
    /\ tournamentFinished
    /\ error' = FALSE
    /\ manualEnded' = FALSE
    /\ extraMode' = TRUE
    /\ UNCHANGED <<players, courts, matches, results, savedRounds, targetRounds,
                   setupDone, timers, ret>>

Scores == {Empty} \cup 0..MaxScore

Next ==
    \/ \E n \in MatchSize..MaxSetupPlayers, c \in 1..Max(1, MaxSetupPlayers \div MatchSize),
          t \in 1..MaxTarget : StartTournamentFromSetup(n, c, t)
    \/ generateRoundFair
    \/ \E i \in DOMAIN matches, side \in {"A", "B"}, value \in Scores :
          updateScore(matches[i].court, side, value)
    \/ saveRound
    \/ deleteLastRound
    \/ endTournamentNow
    \/ resumeTournament
    \/ playExtraRounds

Spec == Init /\ [][Next]_vars

(***************************************************************************)
(* Properties of generateFairRound, stated on the value it returned (ret)  *)
(* and on the arguments it was called with (players, courts, savedRounds). *)
(***************************************************************************)
\* The set of the four players of a match.
PlayersIn(m) == {m.teamA[1], m.teamA[2], m.teamB[1], m.teamB[2]}

\* The players of the returned matches, and those of the returned bench.
Matched == UNION {PlayersIn(ret.matches[i]) : i \in DOMAIN ret.matches}
Benched == Range(ret.bench)

\* C1: in every generated round the four players of each match are pairwise
\* distinct roster members, and no player appears in two matches.
C1_DistinctPlayers ==
    ret.called =>
        /\ \A i \in DOMAIN ret.matches :
              /\ Len(ret.matches[i].teamA) = 2
              /\ Len(ret.matches[i].teamB) = 2
              /\ Cardinality(PlayersIn(ret.matches[i])) = 4
              /\ PlayersIn(ret.matches[i]) \subseteq Range(players)
        /\ \A i, j \in DOMAIN ret.matches :
              i # j => PlayersIn(ret.matches[i]) \cap PlayersIn(ret.matches[j]) = {}

\* A round of two matches was generated.
C1_Witness == ret.called /\ Len(ret.matches) = 2

\* C2: the round has exactly usedCourts = max(0, min(courtsWanted,
\* floor(rosterSize / 4))) matches, on courts 1 .. usedCourts in order; a
\* courtsWanted above floor(rosterSize / 4) is clamped down to it.
C2_UsedCourts ==
    ret.called =>
        LET possible == Len(players) \div 4
            wanted == IF courts < possible THEN courts ELSE possible
            usedCourts == IF wanted > 0 THEN wanted ELSE 0
        IN  /\ Len(ret.matches) = usedCourts
            /\ \A i \in DOMAIN ret.matches : ret.matches[i].court = i
            /\ courts > possible => Len(ret.matches) = possible

\* Three courts were asked of a roster that fills two: two matches, on
\* courts 1 and 2.
C2_Witness ==
    /\ ret.called
    /\ courts > Len(players) \div 4
    /\ Len(ret.matches) = 2
    /\ ret.matches[2].court = 2

\* C3: the bench is the complement of the matched players: every roster
\* player is in exactly one match or on the bench, never both, and
\* 4 * (number of matches) + (bench size) = roster size.
C3_BenchComplement ==
    ret.called =>
        /\ Benched = Range(players) \ Matched
        /\ Cardinality(Benched) = Len(ret.bench)
        /\ \A p \in Range(players) :
              \/ /\ p \notin Benched
                 /\ Cardinality({i \in DOMAIN ret.matches : p \in PlayersIn(ret.matches[i])}) = 1
              \/ /\ p \in Benched
                 /\ Cardinality({i \in DOMAIN ret.bench : ret.bench[i] = p}) = 1
                 /\ p \notin Matched
        /\ 4 * Len(ret.matches) + Len(ret.bench) = Len(players)

\* A round with a match and a non-empty bench was generated.
C3_Witness == ret.called /\ Len(ret.matches) = 1 /\ Len(ret.bench) = 1

\* C4: with fewer than 4 players, or with courtsWanted <= 0, the generator
\* returns no match and the whole roster as the bench; and
\* recommendRoundsPartner is 0 for every roster size below 4.
C4_NothingToPlay ==
    /\ (ret.called /\ (Len(players) < 4 \/ courts <= 0)) =>
          /\ ret.matches = <<>>
          /\ Range(ret.bench) = Range(players)
          /\ Len(ret.bench) = Len(players)
    /\ \A n \in 0..3 : \A c \in -1..MaxCourtsWanted : recommendRoundsPartner(n, c) = 0

\* The generator was called with three players and a court asked for.
C4_Witness ==
    /\ ret.called
    /\ Len(players) = 3
    /\ courts >= 1
    /\ Len(ret.bench) = 3

\* The number of matches of the history a player took part in.
GamesIn(rounds, p) ==
    LET ms == Flatten(rounds)
    IN  Cardinality({i \in DOMAIN ms : p \in PlayersIn(ms[i])})

\* C5: every player placed in a match has a games-played count no greater
\* than that of every benched player, whatever the shuffle.
C5_FewestGamesPlay ==
    ret.called =>
        \A p \in Matched : \A b \in Benched :
            GamesIn(savedRounds, p) <= GamesIn(savedRounds, b)

\* A player who had played more than one of the matched players was benched.
C5_Witness ==
    /\ ret.called
    /\ \E p \in Matched : \E b \in Benched :
          GamesIn(savedRounds, p) < GamesIn(savedRounds, b)

\* How often the history has x and y as partners, and as opponents.
PartneredIn(rounds, x, y) ==
    LET ms == Flatten(rounds)
    IN  Cardinality({i \in DOMAIN ms : {x, y} \in {Range(ms[i].teamA), Range(ms[i].teamB)}})

OpposedIn(rounds, x, y) ==
    LET ms == Flatten(rounds)
    IN  Cardinality({i \in DOMAIN ms :
            \/ x \in Range(ms[i].teamA) /\ y \in Range(ms[i].teamB)
            \/ y \in Range(ms[i].teamA) /\ x \in Range(ms[i].teamB)})

\* The partner-count sum of the split a b | c d.
PartnerSum(a, b, c, d) == PartneredIn(savedRounds, a, b) + PartneredIn(savedRounds, c, d)

\* Four times the cost of the split a b | c d:
\* 14 * partner repeats + 3 * opponent repeats - 0.25 * games played.
Cost4(a, b, c, d) ==
    4 * 14 * PartnerSum(a, b, c, d)
    + 4 * 3 * (OpposedIn(savedRounds, a, c) + OpposedIn(savedRounds, a, d)
               + OpposedIn(savedRounds, b, c) + OpposedIn(savedRounds, b, d))
    - (GamesIn(savedRounds, a) + GamesIn(savedRounds, b)
       + GamesIn(savedRounds, c) + GamesIn(savedRounds, d))

CostOfMatch(m) == Cost4(m.teamA[1], m.teamA[2], m.teamB[1], m.teamB[2])

PartnerSumOfMatch(m) == PartnerSum(m.teamA[1], m.teamA[2], m.teamB[1], m.teamB[2])

\* The pool court i chooses from: the active players less those of the
\* matches of the courts before it.
PoolOf(i) ==
    (Range(players) \ Benched) \ UNION {PlayersIn(ret.matches[j]) : j \in 1..(i - 1)}

\* Every 2-vs-2 split of every four players of a pool, once each.
Candidates(pool) ==
    {q \in pool \X pool \X pool \X pool :
        /\ q[1] < q[2] /\ q[3] < q[4] /\ q[1] < q[3]
        /\ Cardinality({q[1], q[2], q[3], q[4]}) = 4}

\* C6: court by court, the match chosen has the minimal cost
\* 14 * partner + 3 * opponent - 0.25 * games over every 4-subset of the
\* remaining pool and each of its three splits, and its four players are
\* taken from that pool.
C6_MinimalCost ==
    ret.called =>
        \A i \in DOMAIN ret.matches :
            /\ PlayersIn(ret.matches[i]) \subseteq PoolOf(i)
            /\ \A q \in Candidates(PoolOf(i)) :
                  CostOfMatch(ret.matches[i]) <= Cost4(q[1], q[2], q[3], q[4])

\* Two courts were filled from a pool of eight, and the first court's match
\* is strictly cheaper than some other candidate of its pool.
C6_Witness ==
    /\ ret.called
    /\ Len(ret.matches) = 2
    /\ Cardinality(PoolOf(1)) = 8
    /\ \E q \in Candidates(PoolOf(1)) :
          CostOfMatch(ret.matches[1]) < Cost4(q[1], q[2], q[3], q[4])

\* C7: on every court the chosen match has the smallest partner-count sum
\* partner(a,b) + partner(c,d) of all candidate splits of the pool: no
\* candidate with fewer partner repeats is passed over for one with more.
C7_PartnerFirst ==
    ret.called =>
        \A i \in DOMAIN ret.matches :
            \A q \in Candidates(PoolOf(i)) :
                PartnerSumOfMatch(ret.matches[i]) <= PartnerSum(q[1], q[2], q[3], q[4])

\* The teams of the one match of the one saved round.
PriorPartners ==
    {Range(savedRounds[1].matches[1].teamA), Range(savedRounds[1].matches[1].teamB)}

\* The scenario of C8: a roster of eight, one saved round of one match.
C8_Scenario ==
    /\ ret.called
    /\ Len(players) = 8
    /\ Len(savedRounds) = 1
    /\ Len(savedRounds[1].matches) = 1

\* C8: with a roster of 8 and a history of one round of one match, the next
\* round never pairs that match's partners again on a court whose pool
\* offers a grouping that avoids the repeat.
C8_NoRepeatedPartners ==
    C8_Scenario =>
        \A i \in DOMAIN ret.matches :
            (\E q \in Candidates(PoolOf(i)) :
                {q[1], q[2]} \notin PriorPartners /\ {q[3], q[4]} \notin PriorPartners)
            => /\ Range(ret.matches[i].teamA) \notin PriorPartners
               /\ Range(ret.matches[i].teamB) \notin PriorPartners

\* In the scenario the two former partners meet again in a match, as
\* opponents.
C8_Witness ==
    /\ C8_Scenario
    /\ \E i \in DOMAIN ret.matches : \E t \in PriorPartners :
          /\ t \subseteq PlayersIn(ret.matches[i])
          /\ Range(ret.matches[i].teamA) # t
          /\ Range(ret.matches[i].teamB) # t

(***************************************************************************)
(* Properties of the partner coverage, stated on the page's state.         *)
(***************************************************************************)
\* The first round of a roster of four on one court: what the generator
\* returned for the empty history.
FirstRoundOfFour ==
    /\ ret.called
    /\ Len(players) = 4
    /\ effectiveCourts = 1
    /\ savedRounds = <<>>

\* A roster of four whose history is one saved round of one match.
OneRoundOfFour ==
    /\ Len(players) = 4
    /\ Len(savedRounds) = 1
    /\ Len(savedRounds[1].matches) = 1
    /\ PlayersIn(savedRounds[1].matches[1]) = Range(players)

\* The generator's part of C9: one match of all four players, two against
\* two, and an empty bench.
OneMatchOfAllFour ==
    FirstRoundOfFour =>
        /\ Len(ret.matches) = 1
        /\ PlayersIn(ret.matches[1]) = Range(players)
        /\ Len(ret.matches[1].teamA) = 2
        /\ Len(ret.matches[1].teamB) = 2
        /\ ret.bench = <<>>

\* C9 as amended: from a roster of 4, an empty history and 1 court the
\* generator returns one match of all four players and an empty bench; once
\* that round is saved, partnerCoverage on the history of length 1 returns
\* totalPairs = 6, percent = 33, missingPairs = 4 and complete = false.
C9_CoverageAfterFirstRound ==
    /\ OneMatchOfAllFour
    /\ OneRoundOfFour =>
          coverage = [complete |-> FALSE, percent |-> 33, missingPairs |-> 4, totalPairs |-> 6]

\* C9 as stated: ... partnerCoverage on the history of length 1 returns
\* totalPairs = 6, percent = 17, missingPairs = 5 and complete = false.
C9_AsStated ==
    /\ OneMatchOfAllFour
    /\ OneRoundOfFour =>
          coverage = [complete |-> FALSE, percent |-> 17, missingPairs |-> 5, totalPairs |-> 6]

\* The round of all four players has just been saved.
C9_Witness ==
    /\ OneRoundOfFour
    /\ matches = <<>>
    /\ ~ret.called

RECURSIVE SubHistories(_)
\* The histories made of a subset of the rounds of h, in h's order.
SubHistories(h) ==
    IF h = <<>> THEN {<<>>}
    ELSE LET rest == SubHistories(Tail(h))
         IN  rest \cup {<<Head(h)>> \o r : r \in rest}

\* C10: the coverage percent of a history made of a subset of the saved
\* rounds is never above the percent of the saved rounds: saving a round
\* never lowers the percent, deleting the last round never raises it.
C10_CoverageMonotone ==
    \A H1 \in SubHistories(savedRounds) :
        partnerCoverage(players, H1).percent <= coverage.percent

\* Two rounds are saved and the later one raised the percent.
C10_Witness ==
    /\ Len(savedRounds) = 2
    /\ partnerCoverage(players, Tail(savedRounds)).percent < coverage.percent

(***************************************************************************)
(* Properties of makeKey, stated on the key it returned (ret.key) for the  *)
(* identifiers ret.a and ret.b.                                            *)
(***************************************************************************)
\* C12: pair-key symmetry: for all distinct identifiers a and b,
\* makeKey(a, b) equals makeKey(b, a).
C12_KeySymmetric ==
    (ret.called /\ ret.a # ret.b) => ret.key = makeKey(ret.b, ret.a)

\* makeKey was called with the greater identifier first, one of the two
\* holding the separator's character.
C12_Witness ==
    /\ ret.called
    /\ StrLess(ret.b, ret.a)
    /\ 95 \in Range(ret.a) \cup Range(ret.b)
    /\ ret.key = ret.b \o <<95, 95>> \o ret.a

Returned(fn) == ret.called /\ ret.fn = fn

\* The unordered pairs of players that were a team in some match of the
\* history.
TeamsIn(rounds) ==
    LET ms == Flatten(rounds)
    IN  {Range(ms[i].teamA) : i \in DOMAIN ms} \cup {Range(ms[i].teamB) : i \in DOMAIN ms}

\* r is 100 * observed / totalPairs rounded to the nearest integer.
IsRounded(r, observed, totalPairs) ==
    /\ 2 * totalPairs * r <= 200 * observed + totalPairs
    /\ 200 * observed + totalPairs < 2 * totalPairs * (r + 1)

\* C11: partnerCoverage counts existence, not frequency: for N >= 2,
\* totalPairs = N*(N-1)/2, the observed count is the number of distinct
\* unordered team pairs of the history, percent is 100 * observed /
\* totalPairs rounded and clamped to [0, 100], missingPairs is
\* max(0, totalPairs - observed), complete iff observed >= totalPairs; for
\* N <= 1 the result is complete, 100 percent, 0 missing, 0 total.
C11_CoverageCountsExistence ==
    Returned("partnerCoverage") =>
        LET n == Len(players)
            observed == Cardinality(TeamsIn(savedRounds))
            totalPairs == (n * (n - 1)) \div 2
        IN  IF n <= 1
            THEN ret.coverage =
                    [complete |-> TRUE, percent |-> 100, missingPairs |-> 0, totalPairs |-> 0]
            ELSE /\ 2 * totalPairs = n * (n - 1)
                 /\ ret.coverage.totalPairs = totalPairs
                 /\ \E r \in 0..(100 * observed) :
                       /\ IsRounded(r, observed, totalPairs)
                       /\ ret.coverage.percent = IF r > 100 THEN 100 ELSE r
                 /\ ret.coverage.missingPairs =
                       IF totalPairs > observed THEN totalPairs - observed ELSE 0
                 /\ ret.coverage.complete = (observed >= totalPairs)

\* The coverage of a roster of four or more was asked with a history in
\* which a pair partnered twice.
C11_Witness ==
    /\ Returned("partnerCoverage")
    /\ Len(players) >= 4
    /\ \E t \in TeamsIn(savedRounds) : \E x \in t : \E y \in t :
          x # y /\ PartneredIn(savedRounds, x, y) >= 2
    /\ ret.coverage.percent > 0

\* The players of the history are all in the roster.
HistoryInRoster ==
    \A i \in DOMAIN Flatten(savedRounds) : PlayersIn(Flatten(savedRounds)[i]) \subseteq Range(players)

RECURSIVE SumOver(_, _)
\* The sum of the counters of the keys in S.
SumOver(count, S) ==
    IF S = {} THEN 0
    ELSE LET k == CHOOSE x \in S : TRUE IN count[k] + SumOver(count, S \ {k})

\* C14: for a history whose players are all in the roster, computeStats
\* returns as games-played of each roster player the number of matches the
\* player appears in, as partner-count of a pair the number of matches the
\* two were team mates in, as opponent-count the number of matches they
\* were on opposite teams in; a match adds 2 partner and 4 opponent
\* increments.
C14_StatsCountMatches ==
    (Returned("computeStats") /\ HistoryInRoster) =>
        /\ DOMAIN ret.stats.gamesPlayed = Range(players)
        /\ \A p \in Range(players) : ret.stats.gamesPlayed[p] = GamesIn(savedRounds, p)
        /\ \A x \in Range(players) : \A y \in Range(players) :
              x # y =>
                 /\ PairCount(ret.stats.partnerCount, x, y) = PartneredIn(savedRounds, x, y)
                 /\ PairCount(ret.stats.opponentCount, x, y) = OpposedIn(savedRounds, x, y)
        /\ SumOver(ret.stats.partnerCount, DOMAIN ret.stats.partnerCount)
              = 2 * Len(Flatten(savedRounds))
        /\ SumOver(ret.stats.opponentCount, DOMAIN ret.stats.opponentCount)
              = 4 * Len(Flatten(savedRounds))

\* The stats of a roster of five were asked with a history in which a pair
\* partnered twice and a player never played.
C14_Witness ==
    /\ Returned("computeStats")
    /\ HistoryInRoster
    /\ \E p \in Range(players) : ret.stats.gamesPlayed[p] = 0
    /\ \E x \in Range(players) : \E y \in Range(players) :
          x # y /\ PairCount(ret.stats.partnerCount, x, y) >= 2

\* C15 as amended: for every roster size N >= 4 and every requested court
\* count C, recommendRoundsPartner(N, C) * 4 * max(1, min(C, floor(N/4)))
\* >= N*(N-1)/2.
C15_RecommendedCoversPairs ==
    (Returned("recommendRoundsPartner") /\ Len(players) >= 4) =>
        LET n == Len(players)
            fill == n \div 4
            c == IF courts < fill THEN courts ELSE fill
            atLeastOne == IF c < 1 THEN 1 ELSE c
        IN  2 * ret.rounds * 4 * atLeastOne >= n * (n - 1)

\* C15 as stated: for every roster size N >= 4 and every requested court
\* count C, recommendRoundsPartner(N, C) * 4 * min(C, floor(N/4))
\* >= N*(N-1)/2.
C15_AsStated ==
    (Returned("recommendRoundsPartner") /\ Len(players) >= 4) =>
        LET n == Len(players)
            fill == n \div 4
            c == IF courts < fill THEN courts ELSE fill
        IN  2 * ret.rounds * 4 * c >= n * (n - 1)

\* The recommender was asked for a roster of four or more with more courts
\* than the roster fills.
C15_Witness ==
    /\ Returned("recommendRoundsPartner")
    /\ Len(players) >= 4
    /\ courts > Len(players) \div 4
    /\ ret.rounds >= 1

\* C17: recommendRoundsPartner(N, C) is 0 iff N < 4; for N >= 4 it is
\* max(1, ceil(N*(N-1) / (4*c))) with c = max(1, min(C, floor(N/4))): a
\* court count below 1 counts as 1 court and the result is positive.
C17_RecommendedValue ==
    Returned("recommendRoundsPartner") =>
        LET n == Len(players)
            fill == n \div 4
            least == IF courts < fill THEN courts ELSE fill
            c == IF least < 1 THEN 1 ELSE least
        IN  /\ (ret.rounds = 0) <=> (n < 4)
            /\ n >= 4 =>
                  /\ ret.rounds >= 1
                  /\ ret.rounds * 4 * c >= n * (n - 1)
                  /\ (ret.rounds - 1) * 4 * c < n * (n - 1)

\* The recommender was asked with a court count below 1 and answered as
\* for one court, with a quotient that is not whole.
C17_Witness ==
    /\ Returned("recommendRoundsPartner")
    /\ Len(players) >= 4
    /\ courts < 1
    /\ ret.rounds * 4 > Len(players) * (Len(players) - 1)

\* The histories that hold the rounds of h in some order.
Reorderings(h) ==
    {[i \in 1..Len(h) |-> h[f[i]]] : f \in Permutations(1..Len(h))}

\* C19: computeStats is order-independent: a history with the same rounds
\* in another order gives the same three counters.
C19_StatsOrderIndependent ==
    Returned("computeStats") =>
        \A h \in Reorderings(savedRounds) : computeStats(players, h) = ret.stats

\* The stats were asked for a history of three rounds, no two alike.
C19_Witness ==
    /\ Returned("computeStats")
    /\ Len(savedRounds) = 3
    /\ Cardinality(Range(savedRounds)) = 3

(***************************************************************************)
(* Properties of the histories built by saving rounds.                     *)
(***************************************************************************)
\* C16: recommendRoundsPartner(N, C) is a lower bound on the rounds of a
\* full coverage: for N >= 4, while fewer rounds are saved than it
\* recommends, each of at most max(1, min(C, floor(N/4))) matches,
\* partnerCoverage reports complete = false.
C16_RecommendedIsLowerBound ==
    LET n == Len(players)
        fill == n \div 4
        least == IF courts < fill THEN courts ELSE fill
        c == IF least < 1 THEN 1 ELSE least
    IN  (/\ n >= 4
         /\ \A i \in DOMAIN savedRounds : Len(savedRounds[i].matches) <= c
         /\ Len(savedRounds) < recommendRoundsPartner(n, courts))
        => ~partnerCoverage(players, savedRounds).complete

\* One round short of the recommended number, with every pair but two met.
C16_Witness ==
    /\ Len(players) = 4
    /\ Len(savedRounds) = recommendRoundsPartner(Len(players), courts) - 1
    /\ partnerCoverage(players, savedRounds).missingPairs = 2

\* C18: saving a round never lowers a counter of computeStats: every pair
\* key's partner-count and opponent-count, and every roster player's
\* games-played, are at least what they were before the save.
C18_CountersNeverDecrease ==
    [][Len(savedRounds') = Len(savedRounds) + 1 =>
          LET before == computeStats(players, savedRounds)
              after == computeStats(players', savedRounds')
          IN  /\ \A k \in DOMAIN before.partnerCount :
                    /\ k \in DOMAIN after.partnerCount
                    /\ after.partnerCount[k] >= before.partnerCount[k]
              /\ \A k \in DOMAIN before.opponentCount :
                    /\ k \in DOMAIN after.opponentCount
                    /\ after.opponentCount[k] >= before.opponentCount[k]
              /\ \A p \in Range(players) :
                    after.gamesPlayed[p] >= before.gamesPlayed[p]]_vars

\* A round was saved on top of another, and a pair's partner-count and a
\* pair's opponent-count stayed at what the older round gave them.
C18_Witness ==
    /\ Len(savedRounds) = 2
    /\ savedRounds[1] # savedRounds[2]
    /\ \E x \in Range(players) : \E y \in Range(players) :
          /\ x # y
          /\ PartneredIn(Tail(savedRounds), x, y) = 1
          /\ PairCount(computeStats(players, savedRounds).partnerCount, x, y) = 1

(***************************************************************************)
(* History that names players who left the roster.                         *)
(***************************************************************************)
\* C21: history of players absent from the roster is ignored by
\* computeStats: the games-played map it returns has exactly the roster
\* ids as keys, and every value is a non-negative integer.
C21_OnlyRosterGames ==
    Returned("computeStats") =>
        /\ DOMAIN ret.stats.gamesPlayed = Range(players)
        /\ \A p \in DOMAIN ret.stats.gamesPlayed :
              /\ ret.stats.gamesPlayed[p] # NaN
              /\ ret.stats.gamesPlayed[p] >= 0

(***************************************************************************)
(* HistSpec: the saved history under its two updaters, prepend on save and *)
(* drop-first on delete, the latter callable on an empty history too.  ret *)
(* logs the call: the history before it, the history before the call       *)
(* preceding it, and whether that preceding call was a save.               *)
(***************************************************************************)
HistSaveRound ==
    /\ Len(savedRounds) < MaxSaved
    /\ \E round \in RoundsOver(Len(players)) : savedRounds' = <<round>> \o savedRounds
    /\ ret' = [called |-> TRUE, fn |-> "saveRound", before |-> savedRounds,
               prior |-> <<>>, afterSave |-> FALSE]
    /\ UNCHANGED <<players, courts, matches, results, targetRounds,
                   manualEnded, extraMode, error, setupDone, timers>>

HistDeleteLastRound ==
    /\ savedRounds' = DropFirst(savedRounds)
    /\ ret' = [called |-> TRUE, fn |-> "deleteLastRound", before |-> savedRounds,
               prior |-> IF Returned("saveRound") THEN ret.before ELSE <<>>,
               afterSave |-> Returned("saveRound")]
    /\ UNCHANGED <<players, courts, matches, results, targetRounds,
                   manualEnded, extraMode, error, setupDone, timers>>

HistNext == HistSaveRound \/ HistDeleteLastRound

HistSpec == SaveInit /\ [][HistNext]_vars

\* C22: deleteLastRound removes exactly the most recently saved round and
\* leaves the other rounds and their order unchanged, so a save followed by
\* a delete restores the history to what it was before the save; on an
\* empty history it leaves the history empty.
C22_DeleteDropsNewest ==
    Returned("deleteLastRound") =>
        /\ ret.before = <<>> => savedRounds = <<>>
        /\ ret.before # <<>> => ret.before = <<ret.before[1]>> \o savedRounds
        /\ ret.afterSave => savedRounds = ret.prior

\* A round was saved on top of another and then deleted: the older round
\* is what the history holds.
C22_Witness ==
    /\ Returned("deleteLastRound")
    /\ ret.afterSave
    /\ Len(ret.before) = 2
    /\ ret.before[1] # ret.before[2]
    /\ Len(savedRounds) = 1

(***************************************************************************)
(* PlaySpec: the play screen with a roster of eight and one or two courts, *)
(* no target: generate, enter scores, save, delete.  The shuffle is drawn  *)
(* from the rotations of the roster by 0..MaxRotation places.              *)
(***************************************************************************)
Rotate(ps, k) ==
    [i \in 1..Len(ps) |-> ps[((i - 1 + k) % Len(ps)) + 1]]

SampleOrders ==
    LET gamesPlayed == computeStats(players, savedRounds).gamesPlayed
    IN  {SortByGames(Rotate(players, k), gamesPlayed) : k \in 0..MaxRotation}

PlayInit ==
    /\ players = Roster(2 * MatchSize)
    /\ courts \in 1..2
    /\ matches = <<>>
    /\ results = NoResults
    /\ savedRounds = <<>>
    /\ targetRounds = 0
    /\ manualEnded = FALSE
    /\ extraMode = FALSE
    /\ error = FALSE
    /\ setupDone = TRUE
    /\ ret = NoCall
    /\ timers = <<>>

PlayGenerate == generateRoundFairWith(SampleOrders, MaxRounds + 1)

PlayNext ==
    \/ PlayGenerate
    \/ \E i \in DOMAIN matches, side \in {"A", "B"}, value \in Scores :
          updateScore(matches[i].court, side, value)
    \/ saveRound
    \/ deleteLastRound

PlaySpec == PlayInit /\ [][PlayNext]_vars

\* The court numbers of a list of matches.
CourtsOf(ms) == {ms[i].court : i \in DOMAIN ms}

\* No two matches of the list share a court number.
CourtsDistinct(ms) ==
    \A i \in DOMAIN ms : \A j \in DOMAIN ms : i # j => ms[i].court # ms[j].court

\* C23: in every state reachable through generate-round, score entry,
\* save-round and delete-last-round a court number appears at most once in
\* the current round and at most once in each saved round, and each saved
\* round's results hold a score pair for exactly the courts of its matches.
C23_CourtsOncePerRound ==
    /\ CourtsDistinct(matches)
    /\ \A r \in DOMAIN savedRounds :
          /\ CourtsDistinct(savedRounds[r].matches)
          /\ DOMAIN savedRounds[r].results = CourtsOf(savedRounds[r].matches)
          /\ \A c \in DOMAIN savedRounds[r].results :
                DOMAIN savedRounds[r].results[c] = {"scoreA", "scoreB"}

\* Two rounds of two courts each are saved and a third one is on the courts.
C23_Witness ==
    /\ Len(savedRounds) = 2
    /\ \A r \in DOMAIN savedRounds : Len(savedRounds[r].matches) = 2
    /\ Len(matches) = 2

(***************************************************************************)
(* RosterSpec: the play screen of page.tsx with its players card, which    *)
(* stays on the page after setup: addPlayer and removePlayer next to       *)
(* generate, score entry, save and delete.                                 *)
(***************************************************************************)
\* The player ids the state refers to anywhere.
IdsInUse ==
    Range(players)
    \cup UNION {PlayersIn(matches[i]) : i \in DOMAIN matches}
    \cup UNION {UNION {PlayersIn(savedRounds[r].matches[i]) : i \in DOMAIN savedRounds[r].matches} :
                r \in DOMAIN savedRounds}

\* crypto.randomUUID(): an id no player has or had; the least unused number
\* stands for it.
FreshId == CHOOSE p \in 1..(MaxPlayers + 1) : p \notin IdsInUse /\ \A q \in 1..(p - 1) : q \in IdsInUse

\* addPlayer: a name of fewer than 2 characters returns at once.
addPlayer(nameOk) ==
    /\ setupDone
    /\ IF ~nameOk THEN UNCHANGED <<players, error>>
       ELSE /\ Cardinality(IdsInUse) < MaxPlayers
            /\ players' = Append(players, FreshId)
            /\ error' = FALSE
    /\ UNCHANGED <<courts, matches, results, savedRounds, targetRounds, manualEnded,
                   extraMode, setupDone, timers, ret>>

\* removePlayer(id): prev.filter((p) => p.id !== id)
removePlayer(id) ==
    /\ setupDone
    /\ players' = SelectSeq(players, LAMBDA p : p # id)
    /\ error' = FALSE
    /\ UNCHANGED <<courts, matches, results, savedRounds, targetRounds, manualEnded,
                   extraMode, setupDone, timers, ret>>

RosterInit ==
    /\ players = Roster(MatchSize)
    /\ courts = 1
    /\ matches = <<>>
    /\ results = NoResults
    /\ savedRounds = <<>>
    /\ targetRounds = 0
    /\ manualEnded = FALSE
    /\ extraMode = FALSE
    /\ error = FALSE
    /\ setupDone = TRUE
    /\ ret = NoCall
    /\ timers = <<>>

RosterGenerate == generateRoundFairWith(SampleOrders, MaxRosterRounds)

RosterNext ==
    \/ \E nameOk \in BOOLEAN : addPlayer(nameOk)
    \/ \E i \in DOMAIN players : removePlayer(players[i])
    \/ RosterGenerate
    \/ \E i \in DOMAIN matches, side \in {"A", "B"}, value \in Scores :
          updateScore(matches[i].court, side, value)
    \/ saveRound
    \/ deleteLastRound

RosterSpec == RosterInit /\ [][RosterNext]_vars

\* C24: in every reachable state of the application every player id that a
\* match of a saved round refers to exists in the current roster.
C24_HistoryPlayersInRoster ==
    \A r \in DOMAIN savedRounds : \A i \in DOMAIN savedRounds[r].matches :
        PlayersIn(savedRounds[r].matches[i]) \subseteq Range(players)

(***************************************************************************)
(* TieSpec: generateFairRound with the order it works on kept.  ret holds  *)
(* byGames, the outcome of the shuffle and the sort, next to the round     *)
(* returned for it.                                                        *)
(***************************************************************************)
TieInit ==
    /\ \/ /\ \E n \in MatchSize..MaxPlayers :
                /\ players = Roster(n)
                /\ savedRounds \in HistoriesOver(n, 1)
          /\ courts = 1
       \/ /\ players = Roster(2 * MatchSize)
          /\ savedRounds \in {<<>>, <<FirstRound>>}
          /\ courts = 2
    /\ matches = <<>>
    /\ results = NoResults
    /\ targetRounds = 0
    /\ manualEnded = FALSE
    /\ extraMode = FALSE
    /\ error = FALSE
    /\ setupDone = TRUE
    /\ ret = NoCall
    /\ timers = <<>>

\* The orders drawn: every outcome for a roster of up to MaxPlayers, the
\* rotations of the roster for a larger one.
TieOrders ==
    IF Len(players) <= MaxPlayers THEN ByGamesOrders(players, savedRounds)
    ELSE {SortByGames(Rotate(players, k), computeStats(players, savedRounds).gamesPlayed) :
            k \in 0..(Len(players) - 1)}

CallGenerateWithOrder ==
    /\ ~ret.called
    /\ \E byGames \in TieOrders :
          ret' = [called |-> TRUE, fn |-> "generateFairRound", byGames |-> byGames,
                  round |-> generateFairRound(players, courts, savedRounds, byGames)]
    /\ UNCHANGED <<players, courts, matches, results, savedRounds, targetRounds,
                   manualEnded, extraMode, error, setupDone, timers>>

TieNext == CallGenerateWithOrder

TieSpec == TieInit /\ [][TieNext]_vars

\* The remaining pool court i scans, in order: byGames less the bench and
\* less the players of the courts before i.
PoolSeq(i) ==
    SelectSeq(ret.byGames, LAMBDA x :
        /\ x \notin Range(ret.round.bench)
        /\ x \notin UNION {PlayersIn(ret.round.matches[j]) : j \in 1..(i - 1)})

\* The candidates of a pool of n players: index quadruples i < j < k < l
\* with a split number 1 (pq|rs), 2 (pr|qs) or 3 (ps|qr).
TieCandidates(n) ==
    {c \in (1..n) \X (1..n) \X (1..n) \X (1..n) \X (1..3) :
        c[1] < c[2] /\ c[2] < c[3] /\ c[3] < c[4]}

\* The order the loops visit the candidates in.
VisitedBefore(c, d) ==
    \E x \in 1..5 : c[x] < d[x] /\ \A y \in 1..(x - 1) : c[y] = d[y]

\* The teams of candidate c over the pool: <<a, b, c, d>> for a b | c d.
TeamsOf(pool, c) ==
    LET p == pool[c[1]]
        q == pool[c[2]]
        r == pool[c[3]]
        s == pool[c[4]]
    IN  IF c[5] = 1 THEN <<p, q, r, s>>
        ELSE IF c[5] = 2 THEN <<p, r, q, s>>
        ELSE <<p, s, q, r>>

TieCost(pool, c) ==
    LET t == TeamsOf(pool, c) IN Cost4(t[1], t[2], t[3], t[4])

\* C25: ties in cost are resolved by first-found order: on every court the
\* match returned is the first candidate of minimal cost in the order of
\* the loops, 4-subsets in index order i < j < k < l over the remaining
\* pool and within a 4-subset the splits pq|rs, pr|qs, ps|qr; a later
\* candidate wins only with a strictly lower cost.
C25_FirstFoundWins ==
    Returned("generateFairRound") =>
        \A i \in DOMAIN ret.round.matches :
            LET pool == PoolSeq(i)
                cands == TieCandidates(Len(pool))
                first == CHOOSE c \in cands :
                            \A d \in cands \ {c} :
                                \/ TieCost(pool, c) < TieCost(pool, d)
                                \/ TieCost(pool, c) = TieCost(pool, d) /\ VisitedBefore(c, d)
                t == TeamsOf(pool, first)
            IN  ret.round.matches[i] = Match(i, t[1], t[2], t[3], t[4])

\* Two courts were filled from eight players with one round saved: on the
\* first court a candidate visited later costs the same as the match
\* returned, and another one costs more.
C25_Witness ==
    /\ Returned("generateFairRound")
    /\ Len(ret.round.matches) = 2
    /\ Len(savedRounds) = 1
    /\ \E c \in TieCandidates(2 * MatchSize) : \E d \in TieCandidates(2 * MatchSize) :
          /\ TeamsOf(PoolSeq(1), c) = <<ret.round.matches[1].teamA[1], ret.round.matches[1].teamA[2],
                                        ret.round.matches[1].teamB[1], ret.round.matches[1].teamB[2]>>
          /\ VisitedBefore(c, d)
          /\ TieCost(PoolSeq(1), c) = TieCost(PoolSeq(1), d)
          /\ \E e \in TieCandidates(2 * MatchSize) : TieCost(PoolSeq(1), e) > TieCost(PoolSeq(1), c)

\* C26: playing time stays balanced: in every state reachable from an
\* empty history with a fixed roster through generate-round, save-round and
\* delete-last-round, the games-played counts of the saved history of any
\* two roster players differ by at most 1.
C26_PlaytimeBalanced ==
    \A p \in Range(players) : \A q \in Range(players) :
        GamesIn(savedRounds, p) - GamesIn(savedRounds, q) <= 1

(***************************************************************************)
(* AutoSpec: the play screen of part_000 with Auto Next Round switched on. *)
(* A handler sees the state of the render it was created in.  saveRound    *)
(* passes setTimeout a callback created in the same render, so the         *)
(* callback sees that render's values when it runs 250 ms later, whatever  *)
(* the state has become; timers holds the values captured, one record per  *)
(* pending callback.  ret logs the last round generated: by whom, from     *)
(* which history, and the history saved at that time.                      *)
(***************************************************************************)
\* The values of the current render that the handlers close over.
Render ==
    [players |-> players, courts |-> courts, savedRounds |-> savedRounds,
     targetRounds |-> targetRounds, manualEnded |-> manualEnded, extraMode |-> extraMode]

\* tournamentFinished, as a render computed it.
FinishedIn(r) ==
    r.manualEnded \/ (~r.extraMode /\ r.targetRounds > 0 /\ Len(r.savedRounds) >= r.targetRounds)

\* Math.min(effectiveCourts, possible), as a render computed it.
UsedCourtsIn(r) ==
    LET possible == Len(r.players) \div MatchSize
        effective == Min(Max(1, r.courts), Max(1, possible))
    IN  Min(effective, possible)

\* The values byGames takes in AutoSpec: the shuffle leaves r.players
\* rotated by 0..MaxRotation places.
OrdersIn(r) ==
    LET gamesPlayed == computeStats(r.players, r.savedRounds).gamesPlayed
    IN  {SortByGames(Rotate(r.players, k), gamesPlayed) : k \in 0..MaxRotation}

\* generateRoundFair of part_000, as created in render r.
GenerateIn(r, byTimer) ==
    IF FinishedIn(r) \/ Len(r.players) < MatchSize
    THEN /\ error' = TRUE
         /\ UNCHANGED <<matches, results, ret>>
    ELSE /\ \E byGames \in OrdersIn(r) :
               LET fair == generateFairRound(r.players, UsedCourtsIn(r), r.savedRounds, byGames)
               IN  /\ matches' = fair.matches
                   /\ results' = ZeroResults(fair.matches)
         /\ error' = FALSE
         /\ ret' = [called |-> TRUE, fn |-> "generateRoundFair", byTimer |-> byTimer,
                    used |-> r.savedRounds, current |-> savedRounds]

\* The button "Neue Runde".
generateRoundFairAuto ==
    /\ setupDone
    /\ Len(savedRounds) < MaxRounds
    /\ GenerateIn(Render, FALSE)
    /\ UNCHANGED <<players, courts, savedRounds, targetRounds, manualEnded, extraMode,
                   setupDone, timers>>

\* prev[court]?.scoreA ?? 0
ScoreOrZero(res, court, side) ==
    IF court \in DOMAIN res THEN res[court][side] ELSE 0

updateScoreAuto(court, side, value) ==
    /\ setupDone
    /\ LET entry == [scoreA |-> IF side = "A" THEN value ELSE ScoreOrZero(results, court, "scoreA"),
                     scoreB |-> IF side = "B" THEN value ELSE ScoreOrZero(results, court, "scoreB")]
       IN  results' = [c \in DOMAIN results \cup {court} |->
                          IF c = court THEN entry ELSE results[c]]
    /\ UNCHANGED <<players, courts, matches, savedRounds, targetRounds, manualEnded,
                   extraMode, error, setupDone, ret, timers>>

\* saveRound of part_000 with prefs.autoNextRound on: a successful save
\* schedules the callback, which closes over the render of the save.
saveRoundAuto ==
    /\ setupDone
    /\ IF tournamentFinished \/ ~canSaveCurrentRound
       THEN /\ error' = TRUE
            /\ UNCHANGED <<matches, results, savedRounds, timers>>
       ELSE /\ Len(savedRounds) < MaxRounds
            /\ Len(timers) < MaxTimers
            /\ savedRounds' = <<SavedRound(matches, FrozenResults(matches, results))>> \o savedRounds
            /\ matches' = <<>>
            /\ results' = NoResults
            /\ error' = FALSE
            /\ timers' = Append(timers, Render)
    /\ UNCHANGED <<players, courts, targetRounds, manualEnded, extraMode, setupDone, ret>>

\* The callback of setTimeout: willEnd and generateRoundFair are those of
\* the render that scheduled it.
autoNextCallback ==
    /\ timers # <<>>
    /\ LET r == Head(timers)
           willEnd == ~r.extraMode /\ r.targetRounds > 0
                      /\ Len(r.savedRounds) + 1 >= r.targetRounds
       IN  IF willEnd THEN UNCHANGED <<matches, results, error, ret>>
           ELSE GenerateIn(r, TRUE)
    /\ timers' = Tail(timers)
    /\ UNCHANGED <<players, courts, savedRounds, targetRounds, manualEnded, extraMode,
                   setupDone>>

\* The buttons "Letzte loeschen" and "Turnier beenden" are rendered while
\* the tournament is not finished, the first one disabled on an empty history.
deleteLastRoundAuto ==
    /\ setupDone
    /\ ~tournamentFinished
    /\ Len(savedRounds) > 0
    /\ savedRounds' = DropFirst(savedRounds)
    /\ UNCHANGED <<players, courts, matches, results, targetRounds, manualEnded,
                   extraMode, error, setupDone, ret, timers>>

endTournamentNowAuto ==
    /\ setupDone
    /\ ~tournamentFinished
    /\ manualEnded' = TRUE
    /\ matches' = <<>>
    /\ results' = NoResults
    /\ UNCHANGED <<players, courts, savedRounds, targetRounds, extraMode, error,
                   setupDone, ret, timers>>

\* The button "Extra-Runden" of the finished tournament.
playExtraRoundsAuto ==
    /\ setupDone
    /\ tournamentFinished
    /\ manualEnded' = FALSE
    /\ extraMode' = TRUE
    /\ UNCHANGED <<players, courts, matches, results, savedRounds, targetRounds,
                   error, setupDone, ret, timers>>

\* resetAll: back to the setup screen; a pending callback is not cancelled.
resetAllAuto ==
    /\ setupDone
    /\ setupDone' = FALSE
    /\ targetRounds' = recommendRoundsPartner(2 * MatchSize, 2)
    /\ players' = <<>>
    /\ courts' = 1
    /\ matches' = <<>>
    /\ results' = NoResults
    /\ savedRounds' = <<>>
    /\ manualEnded' = FALSE
    /\ extraMode' = FALSE
    /\ error' = FALSE
    /\ UNCHANGED <<ret, timers>>

AutoNext ==
    \/ \E t \in 1..MaxTarget : StartTournamentFromSetup(MatchSize, 1, t)
    \/ generateRoundFairAuto
    \/ \E i \in DOMAIN matches, side \in {"A", "B"}, value \in Scores :
          updateScoreAuto(matches[i].court, side, value)
    \/ saveRoundAuto
    \/ autoNextCallback
    \/ deleteLastRoundAuto
    \/ endTournamentNowAuto
    \/ playExtraRoundsAuto
    \/ resetAllAuto

AutoSpec == Init /\ [][AutoNext]_vars

\* C27: with Auto Next Round on, the round generated by the delayed
\* callback that saveRound schedules is computed from the history current
\* at the time the callback runs, which includes the round just saved,
\* never from the history as it was before the save.
C27_AutoNextUsesCurrentHistory ==
    (Returned("generateRoundFair") /\ ret.byTimer) => ret.used = ret.current

\* C28: whenever the tournament is finished (manualEnded, or extraMode off
\* and targetRounds > 0 and saved rounds >= targetRounds) the current
\* round's match list is empty, in every interleaving of the user's
\* actions with the delayed auto-next callback.
C28_FinishedHasNoRound ==
    tournamentFinished => matches = <<>>

(***************************************************************************)
(* Properties of the handlers of the page, checked on Spec.                *)
(***************************************************************************)
\* The target is reached and binding: extraMode off, targetRounds > 0 and
\* at least targetRounds rounds saved.
TargetReached ==
    ~extraMode /\ targetRounds > 0 /\ Len(savedRounds) >= targetRounds

\* C29: while extraMode is off and targetRounds > 0 the number of saved
\* rounds never exceeds targetRounds, whatever generate-round, save-round,
\* delete-last-round, end-tournament and resume do after setup: once the
\* tournament is finished, saveRound and generateRoundFair are refused,
\* the state staying as it is apart from the error message.
C29_TargetNeverExceeded ==
    [][/\ (~extraMode' /\ targetRounds' > 0) => Len(savedRounds') <= targetRounds'
       /\ (manualEnded \/ TargetReached) =>
             /\ saveRound =>
                   UNCHANGED <<players, courts, matches, results, savedRounds,
                               targetRounds, manualEnded, extraMode, setupDone>>
             /\ generateRoundFair =>
                   UNCHANGED <<players, courts, matches, results, savedRounds,
                               targetRounds, manualEnded, extraMode, setupDone>>]_vars

\* The target was reached with extraMode off, a round later than the
\* first, and an attempt to go on was answered with the error message.
C29_Witness ==
    /\ TargetReached
    /\ ~manualEnded
    /\ Len(savedRounds) = 2
    /\ error

\* Some court of the current round has no entry or lacks a score.
ScoreMissing ==
    \E i \in DOMAIN matches :
        \/ matches[i].court \notin DOMAIN results
        \/ results[matches[i].court].scoreA = Empty
        \/ results[matches[i].court].scoreB = Empty

\* C30: in page.tsx saveRound is rejected when there is no current round or
\* when a court of the current round lacks a score: history, current
\* matches and entered results stay as they are and an error message is
\* set; a successful save prepends exactly one round, whose matches are
\* the current matches, and then clears the current matches and results.
C30_SaveRejectsOrPrepends ==
    [][saveRound =>
          /\ (Len(matches) = 0 \/ ScoreMissing) =>
                /\ UNCHANGED <<savedRounds, matches, results>>
                /\ error'
          /\ savedRounds' # savedRounds =>
                /\ Len(savedRounds') = Len(savedRounds) + 1
                /\ Tail(savedRounds') = savedRounds
                /\ Head(savedRounds').matches = matches
                /\ matches' = <<>>
                /\ results' = NoResults]_vars

\* A save was refused for a missing score, with a round already saved: the
\* error is shown and the round is still on the court.
C30_Witness ==
    /\ error
    /\ ~tournamentFinished
    /\ Len(savedRounds) = 1
    /\ Len(matches) = 1
    /\ ScoreMissing

====
